---- MODULE Spec2Model ----
(***************************************************************************)
(* Model of the record-space scanning service of oar-fm-application-layer  *)
(* (src/app/api/scan.py, src/helpers.py): the FileManagerDirectoryScanner  *)
(* (fast_scan / slow_scan), the ScanFiles resource (post / get / delete),  *)
(* the process-wide scans_states table and the report files kept in the    *)
(* file manager.                                                           *)
(***************************************************************************)
EXTENDS Integers, Sequences, FiniteSets, TLC

VARIABLES
    nextcloud_md,   \* the file manager's listing of the record space
    scans_states,   \* scan.py:27   the global dict of scanning job statuses
    store,          \* the file manager's files: path -> content (report files)
    content_md,     \* per scan: the metadata dict handed to fast_scan/slow_scan
    req,            \* per scan: position of the POST request handler
    thr,            \* per scan: position of the slow_scan run (thread)
    idx,            \* per scan: position of "for resource in contents"
    current_time,   \* per scan: slow_scan's local current_time
    response,       \* per scan: what ScanFiles.post returned
    attempt,        \* per scan: "first" run of slow_scan or a "retry"
    hist,           \* per scan: what the current slow_scan run has done
    lastResp        \* the last response of ScanFiles.get / ScanFiles.delete

vars == <<nextcloud_md, scans_states, store, content_md, req, thr, idx, current_time,
          response, attempt, hist, lastResp>>

(***************************************************************************)
(* Bounds                                                                  *)
(***************************************************************************)
MaxLen == 2
MaxTime == 1

ScanIds == {"u1", "u2"}          \* the values uuid.uuid4() hands out
Times == 0..MaxTime              \* wall-clock readings; 0 is 1970-01-01T00:00:00
record_name == "rec"             \* the record space the requests name

(***************************************************************************)
(* ISO-8601 strings and datetime objects.  A string is <<wall, suffix>>,   *)
(* a datetime is [wall, tzinfo].                                           *)
(***************************************************************************)
fromisoformat(str) == [wall |-> str[1], tzinfo |-> IF str[2] = "" THEN "None" ELSE str[2]]

replace_tzinfo_None(dt) == [dt EXCEPT !.tzinfo = "None"]

isoformat(dt) == <<dt.wall, IF dt.tzinfo = "None" THEN "" ELSE dt.tzinfo>>

\* datetime.now(): a naive local reading t
datetime_now(t) == [wall |-> t, tzinfo |-> "None"]

\* comparison of two naive datetimes
dt_gt(a, b) == a.wall > b.wall

EpochDefault == <<0, "">>        \* the literal '1970-01-01T00:00:00'

(***************************************************************************)
(* Python dicts: functions whose domain is the set of keys present.        *)
(***************************************************************************)
dict_get(d, k, default) == IF k \in DOMAIN d THEN d[k] ELSE default

dict_set(d, k, v) == [x \in DOMAIN d \cup {k} |-> IF x = k THEN v ELSE d[x]]

dict_del(d, k) == [x \in DOMAIN d \ {k} |-> d[x]]

(***************************************************************************)
(* helpers.py                                                              *)
(***************************************************************************)
\* A provider path is [id, slash]: slash says whether it ends with '/'.
determine_resource_type(resource) ==
    IF resource.path.slash THEN "folder" ELSE "file"

\* hashlib.sha256 over the bytes of the file at file_path
Sha256(file_path) == <<"sha256", file_path.id>>

\* calculate_checksum: the digest, or the IOError of open() on an unreadable path
calculate_checksum(file_path, readable) ==
    IF readable THEN [raised |-> FALSE, value |-> Sha256(file_path)]
    ELSE [raised |-> TRUE, value |-> "IOError"]

(***************************************************************************)
(* The report file of a scan                                               *)
(***************************************************************************)
fm_system_path_of(space_id) == <<space_id, "sys">>

\* the report named after the record space instead of the scan
report_filename_of_space(scan_id) == <<"report", record_name>>

report_filename(scan_id) == <<"report", scan_id>>

os_path_join(dir, filename) == <<dir, filename>>

ReportPath(scan_id) == os_path_join(fm_system_path_of(record_name), report_filename(scan_id))

\* files.post_file(temp, dir, filename) / files.put_file(data, filepath):
\* the file at that path now holds the data
post_file(st, data, dir, filename) == dict_set(st, os_path_join(dir, filename), data)

put_file(st, data, filepath) == dict_set(st, filepath, data)

delete_file(st, filepath) == dict_del(st, filepath)

(***************************************************************************)
(* The file manager's view of the record space: what files.put_scandir,    *)
(* parse_nextcloud_scan_xml and files.get_file / find_last_modified hand   *)
(* to ScanFiles.post for each resource.  find_last_modified renders an     *)
(* HTTP date, so its strings carry the "+00:00" suffix: a file was last    *)
(* modified at the epoch (mtime 0) or at the latest reading.  A folder's   *)
(* last_modified is never read by the scanner and is kept at one value.    *)
(***************************************************************************)
ProviderStamps == {<<0, "+00:00">>, <<MaxTime, "+00:00">>}

ProviderEntries ==
    {[slash |-> TRUE, last_modified |-> <<MaxTime, "+00:00">>]}
    \cup {[slash |-> FALSE, last_modified |-> lm] : lm \in ProviderStamps}

Listings == UNION {[1..n -> ProviderEntries] : n \in 0..MaxLen}

\* scan.py:312-323  the resource_md built for the i-th resource of the listing
resource_md_of(i, e) ==
    [fileid |-> i,
     path |-> [id |-> i, slash |-> e.slash],
     size |-> i,
     last_modified |-> e.last_modified,
     resource_type |-> determine_resource_type([path |-> [id |-> i, slash |-> e.slash]]),
     scan_errors |-> <<>>]

\* scan.py:325-335  the top-level properties of a content_md.  scan_time,
\* scan_datetime, user_dir and last_modified are read by no code of the
\* scanner; they are kept at one reading of the clock and of the space.
content_md_of(scan_id, contents) ==
    [space_id |-> record_name,
     scan_id |-> scan_id,
     scan_time |-> MaxTime,
     scan_datetime |-> isoformat(datetime_now(MaxTime)),
     user_dir |-> <<"root", record_name, record_name>>,
     fm_system_path |-> fm_system_path_of(record_name),
     contents |-> contents,
     last_modified |-> <<MaxTime, "+00:00">>,
     is_complete |-> TRUE]

\* the content_md keyed by the record space instead of the uuid of line 294
new_content_md_space_id(scan_id, listing) ==
    content_md_of(record_name, [i \in 1..Len(listing) |-> resource_md_of(i, listing[i])])

\* scan.py:310-335  the content_md of a new scan
new_content_md(scan_id, listing) ==
    content_md_of(scan_id, [i \in 1..Len(listing) |-> resource_md_of(i, listing[i])])

(***************************************************************************)
(* FileManagerDirectoryScanner                                             *)
(***************************************************************************)
\* fast_scan with files.post_file swallowed: the report is not uploaded
fast_scan_no_upload(st, md) == st

\* fast_scan uploading under a name that is new at every call (as the name
\* of its NamedTemporaryFile is) instead of report-{scan_id}.json
fast_scan_new_name(st, md) ==
    post_file(st, md, md.fm_system_path,
              <<"report", md.scan_id, Cardinality(DOMAIN st)>>)

\* scan.py:212-231  fast_scan: upload content_md as report-{scan_id}.json
fast_scan(st, md) ==
    post_file(st, md, md.fm_system_path, report_filename(md.scan_id))

\* the test of line 255 with >= for >
needs_checksum_ge(resource) ==
    LET last_modified == replace_tzinfo_None(fromisoformat(resource.last_modified))
        last_checksum_date == replace_tzinfo_None(fromisoformat(
            dict_get(resource, "last_checksum_date", EpochDefault)))
    IN  ~ dt_gt(last_checksum_date, last_modified)

\* scan.py:251-255  is the file modified after its last checksum date?
needs_checksum(resource) ==
    LET last_modified == replace_tzinfo_None(fromisoformat(resource.last_modified))
        last_checksum_date == replace_tzinfo_None(fromisoformat(
            dict_get(resource, "last_checksum_date", EpochDefault)))
    IN  dt_gt(last_modified, last_checksum_date)

\* the selection without the resource_type test of line 250
selected_any_type(resource) == needs_checksum(resource)

\* scan.py:250-255  the resources slow_scan computes a checksum for
selected(resource) ==
    resource.resource_type = "file" /\ needs_checksum(resource)

\* the assignment of line 258 without the one of line 259
with_checksum_only(resource, checksum, now) ==
    dict_set(resource, "checksum", checksum)

\* scan.py:258-259  the two assignments to the resource
with_checksum(resource, checksum, now) ==
    dict_set(dict_set(resource, "checksum", checksum),
             "last_checksum_date", isoformat(now))

\* the updated resource appended to the contents instead of being the
\* element of the list itself
set_resource_appended(md, i, resource) ==
    [md EXCEPT !.contents = Append(md.contents, resource)]

set_resource(md, i, resource) ==
    [md EXCEPT !.contents = [md.contents EXCEPT ![i] = resource]]

\* the report left as it was: the write after the update is missing
update_report_skipped(st, md) == st

\* scan.py:261-265  json.dumps(content_md) is put at fm_system_path/report-{scan_id}.json
update_report(st, md) ==
    put_file(st, md, os_path_join(md.fm_system_path, report_filename(md.scan_id)))

NoReport == [absent |-> TRUE]

report_of(st, scan_id) == dict_get(st, ReportPath(scan_id), NoReport)

\* what is remembered of a scan: the slow scans that had returned when its
\* request came in, and, of its latest slow scan, the metadata and the report
\* it started from, the entries handed to calculate_checksum, the entries
\* whose checksum raised or was written, and whether a write raised
NoHist == [done_before |-> {}, md0 |-> NoReport, report0 |-> NoReport,
           computed |-> {}, failed |-> {}, written |-> {}, put_failed |-> FALSE]

NoMd == [absent |-> TRUE]

NoResponse == [code |-> 0]

(***************************************************************************)
(* ScanFiles.post: the request handler, in three steps                     *)
(***************************************************************************)
\* the thread of lines 346-354 started before fast_scan is called: an
\* exception of fast_scan is answered with a 500 while the thread runs
Post_thread_before_fast_scan(s) ==
    /\ req[s] = "idle"
    /\ content_md' = [content_md EXCEPT ![s] = new_content_md(s, nextcloud_md)]
    /\ thr' = [thr EXCEPT ![s] = "begin"]
    /\ req' = [req EXCEPT ![s] = "failed"]
    /\ response' = [response EXCEPT ![s] = [code |-> 500, error |-> "Unexpected Error"]]
    /\ UNCHANGED <<nextcloud_md, scans_states, store, idx, current_time, attempt,
                   hist, lastResp>>

\* scan.py:285-341  a fresh scan_id, the content_md of the listing, fast_scan.
\* Any exception of the provider calls or of the upload ends in a 500.
Post_fast_scan(s) ==
    /\ req[s] = "idle"
    /\ \E ok \in BOOLEAN :
         LET md == new_content_md(s, nextcloud_md) IN
         IF ok
         THEN /\ content_md' = [content_md EXCEPT ![s] = md]
              /\ store' = fast_scan(store, md)
              /\ req' = [req EXCEPT ![s] = "fast_done"]
              /\ hist' = [hist EXCEPT ![s].done_before =
                              {t \in ScanIds : thr[t] = "done"}]
              /\ UNCHANGED response
         ELSE /\ req' = [req EXCEPT ![s] = "failed"]
              /\ response' = [response EXCEPT ![s] =
                     [code |-> 500, error |-> "Unexpected Error"]]
              /\ UNCHANGED <<content_md, store, hist>>
    /\ UNCHANGED <<nextcloud_md, scans_states, thr, idx, current_time, attempt, lastResp>>

\* scan.py:346-354  run_slow_scan is handed to a thread and the thread started
Post_start_thread(s) ==
    /\ req[s] = "fast_done"
    /\ req' = [req EXCEPT ![s] = "started"]
    /\ thr' = [thr EXCEPT ![s] = "begin"]
    /\ UNCHANGED <<nextcloud_md, scans_states, store, content_md, idx, current_time,
                   response, attempt, hist, lastResp>>

\* scan.py:356-362  the success response with the scan_id
Post_return(s) ==
    /\ req[s] = "started"
    /\ req' = [req EXCEPT ![s] = "returned"]
    /\ response' = [response EXCEPT ![s] = [code |-> 200, scan_id |-> s]]
    /\ UNCHANGED <<nextcloud_md, scans_states, store, content_md, thr, idx, current_time,
                   attempt, hist, lastResp>>

(***************************************************************************)
(* FileManagerDirectoryScanner.slow_scan, one step per statement group     *)
(***************************************************************************)
\* scan.py:245-247  current_time = datetime.datetime.now(); the clock does
\* not run backwards between two runs on the same metadata
slow_begin(s) ==
    /\ thr[s] = "begin"
    /\ \E t \in Times :
         /\ t >= current_time[s].wall
         /\ current_time' = [current_time EXCEPT ![s] = datetime_now(t)]
    /\ idx' = [idx EXCEPT ![s] = 1]
    /\ thr' = [thr EXCEPT ![s] = "loop"]
    /\ hist' = [hist EXCEPT ![s] =
           [done_before |-> hist[s].done_before,
            md0 |-> content_md[s], report0 |-> report_of(store, s),
            computed |-> {}, failed |-> {}, written |-> {}, put_failed |-> FALSE]]
    /\ UNCHANGED <<nextcloud_md, scans_states, store, content_md, req, response, attempt, lastResp>>

\* scan.py:249-259  one resource of the loop: skipped, or its checksum
\* computed and set; an exception of calculate_checksum leaves slow_scan
slow_resource(s) ==
    /\ thr[s] = "loop"
    /\ idx[s] <= Len(content_md[s].contents)
    /\ \E readable \in BOOLEAN :
         LET i == idx[s]
             resource == content_md[s].contents[i]
             checksum == calculate_checksum(resource.path, readable)
         IN
         IF ~ selected(resource)
         THEN /\ idx' = [idx EXCEPT ![s] = i + 1]
              /\ UNCHANGED <<content_md, thr, hist>>
         ELSE IF checksum.raised
         THEN /\ thr' = [thr EXCEPT ![s] = "raised"]
              /\ hist' = [hist EXCEPT ![s].computed = @ \cup {i},
                                      ![s].failed = @ \cup {i}]
              /\ UNCHANGED <<content_md, idx>>
         ELSE /\ content_md' = [content_md EXCEPT ![s] =
                     set_resource(@, i,
                         with_checksum(resource, checksum.value, current_time[s]))]
              /\ thr' = [thr EXCEPT ![s] = "put"]
              /\ hist' = [hist EXCEPT ![s].computed = @ \cup {i}]
              /\ UNCHANGED idx
    /\ UNCHANGED <<nextcloud_md, scans_states, store, req, current_time, response, attempt, lastResp>>

\* the report write dumping the metadata slow_scan was given with the
\* current resource only, not the content_md updated so far
slow_put_file_entry_only(s) ==
    /\ thr[s] = "put"
    /\ store' = update_report(store,
                    set_resource(hist[s].md0, idx[s], content_md[s].contents[idx[s]]))
    /\ idx' = [idx EXCEPT ![s] = @ + 1]
    /\ thr' = [thr EXCEPT ![s] = "loop"]
    /\ hist' = [hist EXCEPT ![s].written = @ \cup {idx[s]}]
    /\ UNCHANGED <<nextcloud_md, scans_states, content_md, req, current_time, response,
                   attempt, lastResp>>

\* scan.py:261-265  the report is rewritten after the resource was updated;
\* an exception of files.put_file leaves slow_scan
slow_put_file(s) ==
    /\ thr[s] = "put"
    /\ \E ok \in BOOLEAN :
         IF ok
         THEN /\ store' = update_report(store, content_md[s])
              /\ idx' = [idx EXCEPT ![s] = @ + 1]
              /\ thr' = [thr EXCEPT ![s] = "loop"]
              /\ hist' = [hist EXCEPT ![s].written = @ \cup {idx[s]}]
         ELSE /\ thr' = [thr EXCEPT ![s] = "raised"]
              /\ hist' = [hist EXCEPT ![s].put_failed = TRUE]
              /\ UNCHANGED <<store, idx>>
    /\ UNCHANGED <<nextcloud_md, scans_states, content_md, req, current_time, response,
                   attempt, lastResp>>

\* scan.py:267  return content_md; in the service this ends run_slow_scan
\* and its thread (scan.py:348-351)
slow_return(s) ==
    /\ thr[s] = "loop"
    /\ idx[s] > Len(content_md[s].contents)
    /\ thr' = [thr EXCEPT ![s] = "done"]
    /\ UNCHANGED <<nextcloud_md, scans_states, store, content_md, req, idx, current_time,
                   response, attempt, hist, lastResp>>

(***************************************************************************)
(* ScanFiles.get and ScanFiles.delete                                      *)
(***************************************************************************)
\* scan.py:380-391  scans_states[scan_id] raises KeyError for an absent key,
\* which the handler's "except Exception" turns into a 500
ScanFiles_get(states, scan_id) ==
    IF scan_id \notin DOMAIN states
    THEN [code |-> 500, error |-> "Unexpected Error"]
    ELSE IF states[scan_id] /= "None"
    THEN [code |-> 200, message |-> states[scan_id]]
    ELSE [code |-> 404, error |-> "Key Error!"]

Get(scan_id) ==
    /\ lastResp' = [op |-> "GET", scan_id |-> scan_id,
                    resp |-> ScanFiles_get(scans_states, scan_id)]
    /\ UNCHANGED <<nextcloud_md, scans_states, store, content_md, req, thr, idx, current_time,
                   response, attempt, hist>>

\* delete without its "except KeyError" clause: the absent key falls to
\* "except Exception", as it does in get
Delete_no_KeyError_clause(scan_id) ==
    /\ lastResp' = [op |-> "DELETE", scan_id |-> scan_id,
                    resp |-> [code |-> 500, error |-> "Unexpected Error"]]
    /\ UNCHANGED <<nextcloud_md, scans_states, store, content_md, req, thr,
                   idx, current_time, response, attempt, hist>>

\* scan.py:404-417  the report file and the entry are deleted; KeyError is
\* the 404, any other exception (files.delete_file) the 500
Delete(scan_id) ==
    IF scan_id \notin DOMAIN scans_states
    THEN /\ lastResp' = [op |-> "DELETE", scan_id |-> scan_id,
                         resp |-> [code |-> 404, error |-> "Key Error!"]]
         /\ UNCHANGED <<nextcloud_md, scans_states, store, content_md, req, thr,
                        idx, current_time, response, attempt, hist>>
    ELSE \E ok \in BOOLEAN :
           IF ok
           THEN /\ store' = delete_file(store, scans_states[scan_id].report_location)
                /\ scans_states' = dict_del(scans_states, scan_id)
                /\ lastResp' = [op |-> "DELETE", scan_id |-> scan_id,
                                resp |-> [code |-> 200, success |-> "DELETE"]]
                /\ UNCHANGED <<nextcloud_md, content_md, req, thr, idx,
                               current_time, response, attempt, hist>>
           ELSE /\ lastResp' = [op |-> "DELETE", scan_id |-> scan_id,
                                resp |-> [code |-> 500, error |-> "Unexpected Error"]]
                /\ UNCHANGED <<nextcloud_md, scans_states, store, content_md, req,
                               thr, idx, current_time, response, attempt, hist>>

(***************************************************************************)
(* The service: requests and threads interleave                            *)
(***************************************************************************)
EmptyDict == [x \in {} |-> {}]

Init ==
    /\ nextcloud_md \in Listings
    /\ scans_states = EmptyDict
    /\ store = EmptyDict
    /\ content_md = [s \in ScanIds |-> NoMd]
    /\ req = [s \in ScanIds |-> "idle"]
    /\ thr = [s \in ScanIds |-> "none"]
    /\ idx = [s \in ScanIds |-> 1]
    /\ current_time = [s \in ScanIds |-> datetime_now(0)]
    /\ response = [s \in ScanIds |-> NoResponse]
    /\ attempt = [s \in ScanIds |-> "first"]
    /\ hist = [s \in ScanIds |-> NoHist]
    /\ lastResp = [op |-> "none"]

Next ==
    \/ \E s \in ScanIds : Post_fast_scan(s)
    \/ \E s \in ScanIds : Post_start_thread(s)
    \/ \E s \in ScanIds : Post_return(s)
    \/ \E s \in ScanIds : slow_begin(s)
    \/ \E s \in ScanIds : slow_resource(s)
    \/ \E s \in ScanIds : slow_put_file(s)
    \/ \E s \in ScanIds : slow_return(s)
    \/ \E scan_id \in ScanIds : Get(scan_id)
    \/ \E scan_id \in ScanIds : Delete(scan_id)

Spec == Init /\ [][Next]_vars

(***************************************************************************)
(* The scanner on its own: a controller hands a metadata dict to fast_scan *)
(* and then to slow_scan (scan.py:37-43), and may call slow_scan again on  *)
(* the metadata the first run left.  The dict may come from earlier scans: *)
(* a file may already carry a checksum and a last_checksum_date, which     *)
(* slow_scan writes without a UTC offset; last_modified is a string of     *)
(* find_last_modified, with the offset of its HTTP date.                   *)
(***************************************************************************)
\* the digest of an earlier content of the file
StaleChecksum == <<"sha256", 0>>

InputStamps == {<<t, "+00:00">> : t \in Times}

InputResources(i) ==
    LET folder == [fileid |-> i, path |-> [id |-> i, slash |-> TRUE], size |-> i,
                   last_modified |-> <<MaxTime, "+00:00">>,
                   resource_type |-> "folder", scan_errors |-> <<>>]
        file(lm) == [fileid |-> i, path |-> [id |-> i, slash |-> FALSE], size |-> i,
                     last_modified |-> lm,
                     resource_type |-> "file", scan_errors |-> <<>>]
    IN  {folder}
        \cup {file(lm) : lm \in InputStamps}
        \cup {[file(<<MaxTime, "+00:00">>) EXCEPT !.scan_errors = <<"IOError">>]}
        \cup {with_checksum(file(lm), StaleChecksum, datetime_now(t)) :
                 lm \in InputStamps, t \in Times}

InputContents ==
    UNION {{c \in [1..n -> UNION {InputResources(i) : i \in 1..n}] :
               \A i \in 1..n : c[i].fileid = i} : n \in 0..MaxLen}

InputMetadata(scan_id) == {content_md_of(scan_id, c) : c \in InputContents}

\* scan.py:212-231  the controller calls fast_scan; an exception of the
\* upload reaches the controller
Ctl_fast_scan(s) ==
    /\ req[s] = "ctl"
    /\ \E ok \in BOOLEAN :
         IF ok
         THEN /\ store' = fast_scan(store, content_md[s])
              /\ req' = [req EXCEPT ![s] = "ctl_fast_done"]
         ELSE /\ req' = [req EXCEPT ![s] = "failed"]
              /\ UNCHANGED store
    /\ UNCHANGED <<nextcloud_md, scans_states, content_md, thr, idx, current_time,
                   response, attempt, hist, lastResp>>

\* scan.py:212-231  the controller calls fast_scan a second time with the
\* metadata the first call returned
Ctl_fast_scan_again(s) ==
    /\ req[s] = "ctl_fast_done"
    /\ \E ok \in BOOLEAN :
         IF ok
         THEN /\ store' = fast_scan(store, content_md[s])
              /\ req' = [req EXCEPT ![s] = "ctl_fast_again"]
         ELSE /\ req' = [req EXCEPT ![s] = "failed"]
              /\ UNCHANGED store
    /\ UNCHANGED <<nextcloud_md, scans_states, content_md, thr, idx, current_time,
                   response, attempt, hist, lastResp>>

\* scan.py:233  the controller calls slow_scan with what fast_scan returned
Ctl_slow_scan(s) ==
    /\ req[s] \in {"ctl_fast_done", "ctl_fast_again"}
    /\ req' = [req EXCEPT ![s] = "ctl_slow"]
    /\ thr' = [thr EXCEPT ![s] = "begin"]
    /\ UNCHANGED <<nextcloud_md, scans_states, store, content_md, idx,
                   current_time, response, attempt, hist, lastResp>>

\* scan.py:233  slow_scan is run once more on the metadata of the run that
\* returned or raised
Ctl_retry(s) ==
    /\ req[s] = "ctl_slow"
    /\ thr[s] \in {"done", "raised"}
    /\ attempt[s] = "first"
    /\ attempt' = [attempt EXCEPT ![s] = "retry"]
    /\ thr' = [thr EXCEPT ![s] = "begin"]
    /\ UNCHANGED <<nextcloud_md, scans_states, store, content_md, req, idx,
                   current_time, response, hist, lastResp>>

ScannerInit ==
    /\ nextcloud_md = <<>>
    /\ scans_states = EmptyDict
    /\ store = EmptyDict
    /\ content_md \in {[s \in ScanIds |-> IF s = "u1" THEN md ELSE NoMd] :
                          md \in InputMetadata("u1")}
    /\ req = [s \in ScanIds |-> IF s = "u1" THEN "ctl" ELSE "idle"]
    /\ thr = [s \in ScanIds |-> "none"]
    /\ idx = [s \in ScanIds |-> 1]
    /\ current_time = [s \in ScanIds |-> datetime_now(0)]
    /\ response = [s \in ScanIds |-> NoResponse]
    /\ attempt = [s \in ScanIds |-> "first"]
    /\ hist = [s \in ScanIds |-> NoHist]
    /\ lastResp = [op |-> "none"]

ScannerNext ==
    \/ \E s \in ScanIds : Ctl_fast_scan(s)
    \/ \E s \in ScanIds : Ctl_fast_scan_again(s)
    \/ \E s \in ScanIds : Ctl_slow_scan(s)
    \/ \E s \in ScanIds : Ctl_retry(s)
    \/ \E s \in ScanIds : slow_begin(s)
    \/ \E s \in ScanIds : slow_resource(s)
    \/ \E s \in ScanIds : slow_put_file(s)
    \/ \E s \in ScanIds : slow_return(s)

SpecScanner == ScannerInit /\ [][ScannerNext]_vars

(***************************************************************************)
(* Properties                                                              *)
(***************************************************************************)
Running(s) == thr[s] \in {"loop", "put", "done", "raised"}

InService(s) == req[s] \in {"started", "returned"}

\* the strings a and b read as times: a <= b
iso_le(a, b) == fromisoformat(a).wall <= fromisoformat(b).wall

\* a file whose last_modified is not after its last_checksum_date
UpToDate(r) ==
    /\ r.resource_type = "file"
    /\ "last_checksum_date" \in DOMAIN r
    /\ iso_le(r.last_modified, r.last_checksum_date)

AllUpToDate(md) ==
    \A i \in 1..Len(md.contents) :
        md.contents[i].resource_type = "file" => UpToDate(md.contents[i])

\* C1  Idempotent skip: a file entry whose last_modified <= last_checksum_date
\* (equality included) keeps its checksum and last_checksum_date through a run
\* of slow_scan and the checksum computer is not called for it; when every file
\* entry is in that state the run writes no report and the report stays as it was.
C1_IdempotentSkip ==
    \A s \in ScanIds : Running(s) =>
        LET md0 == hist[s].md0 IN
        /\ \A i \in 1..Len(md0.contents) :
             UpToDate(md0.contents[i]) =>
                 /\ content_md[s].contents[i] = md0.contents[i]
                 /\ i \notin hist[s].computed
        /\ AllUpToDate(md0) =>
                 /\ hist[s].written = {}
                 /\ hist[s].computed = {}
                 /\ ~ hist[s].put_failed
                 /\ report_of(store, s) = hist[s].report0

\* a run over up-to-date files only, one of them with last_modified equal to
\* last_checksum_date, has returned
C1_Witness ==
    \E s \in ScanIds :
        /\ thr[s] = "done"
        /\ AllUpToDate(hist[s].md0)
        /\ \E i \in 1..Len(hist[s].md0.contents) :
             /\ UpToDate(hist[s].md0.contents[i])
             /\ iso_le(hist[s].md0.contents[i].last_checksum_date,
                       hist[s].md0.contents[i].last_modified)

\* C2  Always-checksum-once: a run of slow_scan that returns has set checksum
\* and last_checksum_date on every file entry that had no last_checksum_date,
\* whatever its last_modified.
C2_AlwaysChecksumOnce ==
    \A s \in ScanIds : thr[s] = "done" =>
        \A i \in 1..Len(hist[s].md0.contents) :
            ( /\ hist[s].md0.contents[i].resource_type = "file"
              /\ "last_checksum_date" \notin DOMAIN hist[s].md0.contents[i] )
            => {"checksum", "last_checksum_date"} \subseteq DOMAIN content_md[s].contents[i]

\* the entries of 1..n the run is done with
Processed(s) == IF thr[s] = "done" THEN Len(content_md[s].contents) ELSE idx[s] - 1

\* C3  Per-entry durability: wherever a slow_scan run stands or stops, the
\* report of its scan_id holds the updated checksum and last_checksum_date of
\* every selected entry among the k processed ones, the original state of the
\* entries after k, and differs from the metadata in memory at most in the
\* entry being processed.
C3_PerEntryDurability ==
    \A s \in ScanIds : (InService(s) /\ Running(s)) =>
        LET md0 == hist[s].md0
            rep == report_of(store, s)
            n   == Len(md0.contents)
        IN
        /\ rep /= NoReport
        /\ Len(rep.contents) = n
        /\ \A i \in 1..n :
             /\ i <= Processed(s) =>
                  /\ rep.contents[i] = content_md[s].contents[i]
                  /\ selected(md0.contents[i]) =>
                       /\ rep.contents[i].checksum = Sha256(md0.contents[i].path)
                       /\ rep.contents[i].last_checksum_date = isoformat(current_time[s])
             /\ i > Processed(s) => rep.contents[i] = md0.contents[i]
             /\ i /= idx[s] => rep.contents[i] = content_md[s].contents[i]

\* a run stopped by the report write of its second entry, the first entry's
\* checksum being in the report
C3_Witness ==
    \E s \in ScanIds :
        /\ InService(s)
        /\ thr[s] = "raised"
        /\ hist[s].put_failed
        /\ idx[s] = 2
        /\ 1 \in hist[s].written
        /\ "checksum" \in DOMAIN report_of(store, s).contents[1]
        /\ "checksum" \notin DOMAIN report_of(store, s).contents[2]
        /\ "checksum" \in DOMAIN content_md[s].contents[2]

\* C4  A failure of the checksum computer on an entry is recovered locally:
\* the entry gets a message in scan_errors and the run goes on with the later
\* entries instead of stopping.
C4_ChecksumFailureRecovered ==
    \A s \in ScanIds : \A i \in hist[s].failed :
        /\ content_md[s].contents[i].scan_errors /= <<>>
        /\ thr[s] /= "raised"

\* C6  Completion is reported: once the background slow_scan of a started scan
\* has returned, the registry entry of its scan_id is completed and holds the
\* report location.
C6_CompletionReported ==
    \A s \in ScanIds : (InService(s) /\ thr[s] = "done") =>
        /\ s \in DOMAIN scans_states
        /\ scans_states[s].status = "completed"
        /\ scans_states[s].report_location = ReportPath(s)

\* C7  Failure is reported: once the background slow phase of a started scan
\* has ended with an exception, the registry entry of its scan_id is failed
\* with the error recorded.
C7_FailureReported ==
    \A s \in ScanIds : (InService(s) /\ thr[s] = "raised") =>
        /\ s \in DOMAIN scans_states
        /\ scans_states[s].status = "failed"
        /\ "error" \in DOMAIN scans_states[s]

\* C9  Polling a scan_id that the start-scan operation has returned finds its
\* registry entry: the poll answers 200 with the status, never 404 or 500.
C9_PollFindsStartedScan ==
    [][\A scan_id \in ScanIds :
          (response[scan_id].code = 200 /\ Get(scan_id)) => lastResp'.resp.code = 200]_vars

FastScanReturned(s) ==
    /\ req[s] \in {"fast_done", "started", "returned"}
    /\ report_of(store, s) /= NoReport

\* C10  Phase ordering: slow_scan is queued only after fast_scan has returned
\* with the report written, the scan_id is handed to the caller only after the
\* fast phase, and handing it over never waits for the slow scan.
C10_PhaseOrdering ==
    \A s \in ScanIds :
        /\ thr[s] /= "none" => FastScanReturned(s)
        /\ thr[s] = "begin" => report_of(store, s) = content_md[s]
        /\ response[s].code = 200 => (FastScanReturned(s) /\ response[s].scan_id = s)
        /\ req[s] = "started" => ENABLED Post_return(s)

\* the scan_id has been returned while the slow scan has processed no entry
C10_Witness ==
    \E s \in ScanIds :
        /\ response[s].code = 200
        /\ Len(content_md[s].contents) > 0
        /\ thr[s] \in {"begin", "loop"}
        /\ idx[s] = 1
        /\ hist[s].computed = {}

C12_PollUnknownNotFound ==
    [][\A scan_id \in ScanIds :
          (scan_id \notin DOMAIN scans_states /\ Get(scan_id)) =>
              /\ lastResp'.resp.code = 404
              /\ scans_states' = scans_states]_vars

HasChecksumField(r) == "checksum" \in DOMAIN r \/ "last_checksum_date" \in DOMAIN r

\* C14  An entry whose resource_type is not 'file' never has a checksum or a
\* last_checksum_date, in the metadata in memory and in the report, and the
\* checksum computer is never called on it.
C14_FolderExclusion ==
    \A s \in ScanIds :
        content_md[s] /= NoMd =>
            \A i \in 1..Len(content_md[s].contents) :
                content_md[s].contents[i].resource_type /= "file" =>
                    /\ ~ HasChecksumField(content_md[s].contents[i])
                    /\ i \notin hist[s].computed
                    /\ report_of(store, s) /= NoReport =>
                           ~ HasChecksumField(report_of(store, s).contents[i])

\* a slow scan returned that went past a folder and wrote the checksum of a file
C14_Witness ==
    \E s \in ScanIds :
        /\ thr[s] = "done"
        /\ \E i, j \in 1..Len(content_md[s].contents) :
              /\ content_md[s].contents[i].resource_type = "folder"
              /\ j \in hist[s].written
              /\ "checksum" \in DOMAIN report_of(store, s).contents[j]

NoField == <<"no field">>

ChecksumPair(r) ==
    <<dict_get(r, "checksum", NoField), dict_get(r, "last_checksum_date", NoField)>>

\* C15  checksum and last_checksum_date change only together: a step that
\* changes either field of an entry in memory leaves the entry with the
\* digest of its file and with the current time of the run, and a report
\* write that changes either field of an entry writes the entry of the
\* metadata in memory, with both fields set.
C15_PairedUpdate ==
    [][\A s \in ScanIds :
          /\ (content_md[s] /= NoMd /\ content_md'[s] /= NoMd) =>
                \A i \in 1..Len(content_md[s].contents) :
                    LET r == content_md'[s].contents[i] IN
                    ChecksumPair(r) /= ChecksumPair(content_md[s].contents[i]) =>
                        ChecksumPair(r) = <<Sha256(r.path), isoformat(current_time[s])>>
          /\ (report_of(store, s) /= NoReport /\ report_of(store', s) /= NoReport) =>
                \A i \in 1..Len(report_of(store, s).contents) :
                    LET r == report_of(store', s).contents[i] IN
                    ChecksumPair(r) /= ChecksumPair(report_of(store, s).contents[i]) =>
                        /\ r = content_md'[s].contents[i]
                        /\ r.checksum = Sha256(r.path)
                        /\ "last_checksum_date" \in DOMAIN r
                        /\ fromisoformat(r.last_checksum_date).wall
                               <= current_time[s].wall]_vars

\* the report holds an entry that came with an older checksum and date and
\* was written with the new digest and the time of the run
C15_Witness ==
    \E s \in ScanIds :
        \E i \in hist[s].written :
            /\ dict_get(hist[s].md0.contents[i], "checksum", NoField) = StaleChecksum
            /\ ChecksumPair(report_of(store, s).contents[i])
                   = <<Sha256(content_md[s].contents[i].path), isoformat(current_time[s])>>
            /\ ChecksumPair(hist[s].md0.contents[i]) /= ChecksumPair(content_md[s].contents[i])

\* an entry of md that a run of slow_scan gave the digest of its file
ChecksummedByRun(md, i) ==
    dict_get(md.contents[i], "checksum", NoField) = Sha256(md.contents[i].path)

\* C16  Retry safety: in a re-run of slow_scan on the metadata an earlier run
\* left, every entry the earlier run checksummed has
\* last_modified <= last_checksum_date and is skipped by the re-run (the
\* checksum computer is not called for it).
C16_RetrySkipsChecksummed ==
    \A s \in ScanIds :
        (attempt[s] = "retry" /\ Running(s)) =>
            \A i \in 1..Len(hist[s].md0.contents) :
                ChecksummedByRun(hist[s].md0, i) =>
                    /\ UpToDate(hist[s].md0.contents[i])
                    /\ i \notin hist[s].computed

\* C17  Scan identity: the scan_id of every start-scan request differs from
\* the scan_id of every other request; the scan_id in the metadata and in the
\* report is the one issued and is left unchanged by fast_scan and slow_scan;
\* and one slow scan, no more, is launched for a scan_id.
C17_ScanIdentity ==
    \A s \in ScanIds :
        /\ content_md[s] /= NoMd =>
               /\ content_md[s].scan_id = s
               /\ report_of(store, s) /= NoReport
               /\ report_of(store, s).scan_id = s
        /\ response[s].code = 200 => response[s].scan_id = content_md[s].scan_id
        /\ Running(s) => hist[s].md0.scan_id = content_md[s].scan_id
        /\ req[s] = "returned" => thr[s] /= "none"
        /\ thr[s] /= "none" =>
               /\ InService(s)
               /\ attempt[s] = "first"
               /\ \A t \in ScanIds \ {s} :
                      thr[t] /= "none" => content_md[t].scan_id /= content_md[s].scan_id

\* two requests were answered with their scan_ids, the slow scan of one has
\* returned and the slow scan of the other is in its loop
C17_Witness ==
    \E s, t \in ScanIds :
        /\ s /= t
        /\ response[s].code = 200 /\ response[t].code = 200
        /\ response[s].scan_id /= response[t].scan_id
        /\ thr[s] = "done" /\ hist[s].written /= {}
        /\ thr[t] = "put"

\* C18  Incremental checksumming: when a space is scanned again by a new
\* start-scan request after an earlier scan of it returned, the new scan
\* computes no checksum for a file the earlier scan checksummed and that was
\* not modified since (the listing of the space is the same for both scans).
C18_IncrementalAcrossScans ==
    \A s, t \in ScanIds :
        s \in hist[t].done_before =>
            \A i \in hist[s].written :
                iso_le(content_md[s].contents[i].last_modified,
                       content_md[s].contents[i].last_checksum_date) =>
                    i \notin hist[t].computed

\* C19  A start-scan request whose fast phase fails (the listing or the
\* upload of the initial report raises) is answered with an error: no scan_id
\* is returned, no slow scan is or will be launched for it, no report of it
\* is written and the registry holds no entry for it.
C19_FastFailureSynchronous ==
    \A s \in ScanIds :
        req[s] = "failed" =>
            /\ response[s].code = 500
            /\ "scan_id" \notin DOMAIN response[s]
            /\ thr[s] = "none"
            /\ ~ ENABLED Post_start_thread(s)
            /\ ~ ENABLED slow_begin(s)
            /\ report_of(store, s) = NoReport
            /\ s \notin DOMAIN scans_states

\* the fast phase of one request failed while the scan of another request,
\* already answered, is in its slow phase
C19_Witness ==
    \E s, t \in ScanIds :
        /\ req[s] = "failed"
        /\ response[s].code = 500
        /\ req[t] = "returned"
        /\ Running(t)

\* the report files of a scan: the files whose name carries its scan_id
ReportsOf(st, scan_id) == {p \in DOMAIN st : p[2][2] = scan_id}

\* C20  fast_scan is idempotent for a scan_id: a call leaves the metadata as
\* it was and the file manager with one report of the scan, at
\* report-{scan_id}.json, holding the input metadata with no checksum field
\* added; a second call on the same metadata changes nothing.
C20_FastScanIdempotent ==
    [][\A s \in ScanIds :
          /\ (Ctl_fast_scan(s) \/ Ctl_fast_scan_again(s)) =>
                /\ content_md'[s] = content_md[s]
                /\ req'[s] /= "failed" =>
                      /\ ReportsOf(store', s) = {ReportPath(s)}
                      /\ store'[ReportPath(s)] = content_md[s]
          /\ Ctl_fast_scan_again(s) => store' = store]_vars

\* fast_scan was called twice and the one report holds the input metadata,
\* in which a file has no checksum
C20_Witness ==
    \E s \in ScanIds :
        /\ req[s] = "ctl_fast_again"
        /\ ReportsOf(store, s) = {ReportPath(s)}
        /\ report_of(store, s) = content_md[s]
        /\ \E i \in 1..Len(content_md[s].contents) :
              /\ content_md[s].contents[i].resource_type = "file"
              /\ ~ HasChecksumField(report_of(store, s).contents[i])

\* the entries of a metadata dict that carry the digest of their file
ChecksummedEntries(md) == {i \in 1..Len(md.contents) : ChecksummedByRun(md, i)}

\* C21  Listing order and growing reports: a report write of a slow scan adds
\* the current entry to the checksummed entries of the report, which all
\* come before it in the listing and are written again as they were, and
\* leaves the later entries as the scan found them; and an entry is handed
\* to the checksum computer only when every selected entry before it is
\* checksummed in the report.
C21_ListingOrder ==
    [][\A s \in ScanIds :
          LET before == report_of(store, s)
              after == report_of(store', s)
              md0 == hist[s].md0
          IN
          /\ (before /= NoReport /\ after /= before) =>
                /\ idx[s] \notin ChecksummedEntries(before)
                /\ ChecksummedEntries(after) = ChecksummedEntries(before) \cup {idx[s]}
                /\ \A i \in ChecksummedEntries(before) :
                      i < idx[s] /\ after.contents[i] = before.contents[i]
                /\ \A j \in 1..Len(after.contents) :
                      j > idx[s] =>
                          /\ after.contents[j] = md0.contents[j]
                          /\ content_md'[s].contents[j] = md0.contents[j]
          /\ hist'[s].computed /= hist[s].computed =>
                /\ hist'[s].computed = hist[s].computed \cup {idx[s]}
                /\ \A i \in 1..Len(md0.contents) :
                      (i < idx[s] /\ selected(md0.contents[i])) =>
                          i \in ChecksummedEntries(before)]_vars

\* the report of a slow scan was written twice, for the first and then for
\* the second entry of the listing
C21_Witness ==
    \E s \in ScanIds :
        /\ InService(s)
        /\ hist[s].written = {1, 2}
        /\ ChecksummedEntries(report_of(store, s)) = {1, 2}

\* the request or the slow scan of s takes the step
StepOf(s) == req'[s] /= req[s] \/ thr'[s] /= thr[s] \/ idx'[s] /= idx[s]

\* C22  No interference between scans: the metadata in memory and the report
\* of a scan change only in steps of that scan's own request or slow scan,
\* and every file written is report-{scan_id}.json of the scan that writes
\* it, holding that scan's metadata.
C22_NoInterference ==
    [][/\ \A s \in ScanIds :
             ~ StepOf(s) =>
                 /\ content_md'[s] = content_md[s]
                 /\ report_of(store', s) = report_of(store, s)
       /\ \A p \in DOMAIN store' :
             store'[p] /= dict_get(store, p, NoReport) =>
                 \E s \in ScanIds :
                     /\ StepOf(s)
                     /\ p = ReportPath(s)
                     /\ p = os_path_join(store'[p].fm_system_path,
                                         report_filename(store'[p].scan_id))
                     /\ store'[p] = content_md'[s]
                     /\ \A t \in ScanIds \ {s} : p /= ReportPath(t)]_vars

\* two scans of the same space are in their slow phases at once, each with
\* a checksum written to its own report
C22_Witness ==
    \E s, t \in ScanIds :
        /\ s /= t
        /\ thr[s] = "put" /\ hist[s].written /= {}
        /\ thr[t] = "loop" /\ hist[t].written /= {}
        /\ report_of(store, s).scan_id = s
        /\ report_of(store, t).scan_id = t
        /\ content_md[s].space_id = content_md[t].space_id

ChecksumFields == {"checksum", "last_checksum_date"}

\* the resource b is the resource a but for its checksum and last_checksum_date
SameButChecksum(a, b) ==
    /\ DOMAIN a \ ChecksumFields = DOMAIN b \ ChecksumFields
    /\ \A k \in DOMAIN a \ ChecksumFields : b[k] = a[k]

====
